---- MODULE Spec2Model ----
(***************************************************************************)
(* The alerting engine of alert_watcher/watcher.py (class LogWatcher):     *)
(* the line parser, the sliding window, the error-rate estimator, the      *)
(* pool-transition detector and the cooldown-gated dispatch to Slack.      *)
(*                                                                         *)
(* Text is modelled by what the code reads of it.  A log line is the       *)
(* sequence of its fields, each a [key, value] pair; upstream_status and   *)
(* status values are sequences of one-character strings, so that           *)
(* startswith('5') and the \d+|- alternative of the pattern are computed.  *)
(* A window entry keeps the one field the code ever reads back from the    *)
(* window, upstream_status (lines 50, 148, 171).                           *)
(*                                                                         *)
(* The handlers are operators from an engine state to the SET of engine    *)
(* states they may leave: the only nondeterminism inside a handler is the  *)
(* notifier's answer (status 200, another status, an exception) and the    *)
(* time the call takes.                                                    *)
(***************************************************************************)
EXTENDS Integers, Sequences, FiniteSets, TLC

VARIABLES
    \* configuration, read once in __init__
    error_threshold, window_size, cooldown_sec, maintenance_mode, slack_client,
    \* engine state
    request_window, last_alert_time, current_pool, last_seen_pool,
    failover_count, primary_recovered,
    \* environment: the clock read by time.time(), and the clock value at
    \* which the model stops following it
    now, clock_end,
    \* observation: the line handed to process_log_line in the step just
    \* taken and the send_slack_alert calls it made (both empty after a step
    \* of the clock), the notifier's own record of the time it last reported
    \* success per category, and the pool of the last accepted line that
    \* carried one
    last_line, attempts, delivered, observed_pool,
    \* observation: the time the notifier last reported success per message
    \* title (the two kinds of recovery message have one category)
    delivered_title,
    \* observation: an error_rate alert has been delivered and every accepted
    \* line since has left the error rate above the threshold
    error_rate_active

config == <<error_threshold, window_size, cooldown_sec, maintenance_mode, slack_client>>
engine == <<request_window, last_alert_time, current_pool, last_seen_pool,
            failover_count, primary_recovered>>
vars == <<error_threshold, window_size, cooldown_sec, maintenance_mode, slack_client,
          request_window, last_alert_time, current_pool, last_seen_pool,
          failover_count, primary_recovered, now, clock_end,
          last_line, attempts, delivered, observed_pool, delivered_title,
          error_rate_active>>

----------------------------------------------------------------------------
\* Bounds of the model and defaults of the program.

\* WINDOW_SIZE of the environment the model runs the watcher in
EnvWindowSize == 2
\* the clock at construction, and how far the model lets it run
EpochStart == 1000
ClockStep == 300
MaxClockSteps == 1
\* pool changes the model follows
MaxFailovers == 2

DefaultErrorThreshold == 2
DefaultCooldownSec == 300
\* 'recovery within 10 min of error', and 'enough data'
RecoveryHorizon == 600
RecentCount == 10

MaxTime == EpochStart + MaxClockSteps * ClockStep

\* Text values are sequences of one-character strings; '' is <<>>.
Blue == <<"b", "l", "u", "e">>
Green == <<"g", "r", "e", "e", "n">>
Dash == <<"-">>

\* parse_log_line's None, and the empty dict
None == [none |-> TRUE]
EmptyDict == [k \in {} |-> 0]

\* os.getenv('INITIAL_ACTIVE_POOL', 'blue')
INITIAL_ACTIVE_POOL == Blue
Pools == {Blue, Green}
AlertTypes == {"failover", "recovery", "error_rate"}

Digits == {"0", "1", "2", "3", "4", "5", "6", "7", "8", "9"}
\* upstream_status values the lines of the model carry
UpstreamStatuses == {<<"5", "0", "2">>, <<"2", "0", "0">>, Dash}

----------------------------------------------------------------------------
\* Lines and the parser.

\* the named groups of log_pattern, in the order the pattern fixes
LogPattern ==
    <<"timestamp", "remote_addr", "request", "status", "pool", "release",
      "upstream_status", "upstream_addr", "request_time", "upstream_response_time">>

IsDigits(v) == Len(v) >= 1 /\ \A i \in 1..Len(v) : v[i] \in Digits

\* (variant: upstream_status=(?P<upstream_status>\S+))
GroupMatches_any_upstream_status(key, v) ==
    CASE key = "status" -> IsDigits(v)
      [] key = "upstream_status" -> Len(v) >= 1
      [] OTHER -> TRUE

\* what each group of the pattern accepts of a field's value
GroupMatches(key, v) ==
    CASE key = "status" -> IsDigits(v)
      [] key = "upstream_status" -> IsDigits(v) \/ v = Dash
      [] OTHER -> TRUE

WellFormedLine(pool, upstream_status) ==
    << [key |-> "timestamp", value |-> <<"t">>],
       [key |-> "remote_addr", value |-> <<"a">>],
       [key |-> "request", value |-> <<"G", "E", "T">>],
       [key |-> "status", value |-> <<"2", "0", "0">>],
       [key |-> "pool", value |-> pool],
       [key |-> "release", value |-> <<"r">>],
       [key |-> "upstream_status", value |-> upstream_status],
       [key |-> "upstream_addr", value |-> <<"u">>],
       [key |-> "request_time", value |-> <<"0", ".", "1">>],
       [key |-> "upstream_response_time", value |-> <<"0", ".", "1">>] >>

Without(line, k) == SubSeq(line, 1, k - 1) \o SubSeq(line, k + 1, Len(line))

WellFormedLines ==
    { WellFormedLine(p, u) : p \in Pools \cup {<<>>}, u \in UpstreamStatuses }

\* a blank line, a line missing its quoted request, a line whose
\* upstream_status is neither digits nor '-'
MalformedLines ==
    { <<>>,
      Without(WellFormedLine(Green, <<"5", "0", "2">>), 3),
      WellFormedLine(Green, <<"5", "x">>) }

Lines == WellFormedLines \cup MalformedLines

parse_log_line(line) ==
    IF /\ Len(line) >= Len(LogPattern)
       /\ \A i \in 1..Len(LogPattern) :
            /\ line[i].key = LogPattern[i]
            /\ GroupMatches(line[i].key, line[i].value)
    THEN [timestamp |-> line[1].value, remote_addr |-> line[2].value,
          request |-> line[3].value, status |-> line[4].value,
          pool |-> line[5].value, release |-> line[6].value,
          upstream_status |-> line[7].value, upstream_addr |-> line[8].value,
          request_time |-> line[9].value,
          upstream_response_time |-> line[10].value]
    ELSE None

\* str.startswith
startswith(s, c) == Len(s) >= 1 /\ s[1] = c

\* str.upper, on the letters pool names are made of
UpperChar(c) ==
    CASE c = "b" -> "B" [] c = "l" -> "L" [] c = "u" -> "U" [] c = "e" -> "E"
      [] c = "g" -> "G" [] c = "r" -> "R" [] c = "n" -> "N" [] OTHER -> c
upper(s) == [i \in 1..Len(s) |-> UpperChar(s[i])]

\* dict.get(key, default)
Get(d, k, default) == IF k \in DOMAIN d THEN d[k] ELSE default

----------------------------------------------------------------------------
\* The engine.  self is the LogWatcher with the clock, the notifier and the
\* observations; a handler maps it to the set of states it may leave.

\* (variant: a full window refuses the new record)
deque_append_keeps_oldest(window, maxlen, x) ==
    IF Len(window) >= maxlen THEN window ELSE Append(window, x)

\* collections.deque(maxlen=n).append
deque_append(window, maxlen, x) ==
    LET appended == Append(window, x)
    IN  IF Len(appended) > maxlen
        THEN SubSeq(appended, Len(appended) - maxlen + 1, Len(appended))
        ELSE appended

\* sum(1 for req in window if req.get('upstream_status', '').startswith('5'))
RECURSIVE error_count(_)
error_count(window) ==
    IF window = <<>> THEN 0
    ELSE (IF startswith(Head(window).upstream_status, "5") THEN 1 ELSE 0)
         + error_count(Tail(window))

\* A rate is the exact quotient num / den; (error_count / len) * 100
Rate(num, den) == [num |-> num, den |-> den]
RateGreater(r, threshold) == r.num > threshold * r.den

\* (variant: records without an upstream status are left out of the denominator)
calculate_error_rate_skipping_sentinel(s) ==
    LET reported == SelectSeq(s.request_window, LAMBDA req : req.upstream_status /= Dash)
    IN  IF reported = <<>>
        THEN Rate(0, 1)
        ELSE Rate(error_count(reported) * 100, Len(reported))

calculate_error_rate(s) ==
    IF s.request_window = <<>>
    THEN Rate(0, 1)
    ELSE Rate(error_count(s.request_window) * 100, Len(s.request_window))

\* (variant: the comparison is strict)
should_alert_strict(s, alert_type) ==
    LET last_time == Get(s.last_alert_time, alert_type, 0)
    IN  (s.now - last_time) > s.cooldown_sec

\* (variant: one cooldown for all categories)
should_alert_any_category(s, alert_type) ==
    \A k \in DOMAIN s.last_alert_time :
        (s.now - s.last_alert_time[k]) >= s.cooldown_sec

should_alert(s, alert_type) ==
    LET last_time == Get(s.last_alert_time, alert_type, 0)
    IN  (s.now - last_time) >= s.cooldown_sec

\* what the webhook may answer: status 200, another status, or an exception,
\* after the time the call took
NotifierAnswers ==
    { [raises |-> FALSE, status_code |-> 200, took |-> 0],
      [raises |-> FALSE, status_code |-> 200, took |-> ClockStep],
      [raises |-> FALSE, status_code |-> 500, took |-> 0],
      [raises |-> TRUE, status_code |-> 0, took |-> 0] }

Succeeds(a) == ~a.raises /\ a.status_code = 200

AnswersOf(s) == { a \in NotifierAnswers : s.now + a.took <= s.clock_end }

\* one send_slack_alert call, as observed from outside
Attempt(s, message, alert_type, severity, outcome) ==
    [alert_type |-> alert_type, severity |-> severity, message |-> message,
     outcome |-> outcome, at |-> s.now,
     previous |-> Get(s.delivered, alert_type, 0)]

Observe(s, message, alert_type, severity, outcome) ==
    [s EXCEPT !.attempts =
        Append(@, Attempt(s, message, alert_type, severity, outcome))]

\* (variant: the cooldown is consumed whatever the notifier answered)
Dispatch_always_stamps(s, message, alert_type, severity, a) ==
    LET called == Observe(s, message, alert_type, severity,
                          IF a.raises THEN "raised"
                          ELSE IF a.status_code = 200 THEN "sent" ELSE "failed")
        answered == [called EXCEPT !.now = @ + a.took]
        stamped == [answered EXCEPT
                      !.last_alert_time =
                          [k \in DOMAIN @ \cup {alert_type} |->
                              IF k = alert_type THEN answered.now ELSE @[k]]]
    IN  IF Succeeds(a)
        THEN [stamped EXCEPT
                !.delivered =
                    [k \in DOMAIN @ \cup {alert_type} |->
                        IF k = alert_type THEN answered.now ELSE @[k]],
                !.delivered_title =
                    [k \in DOMAIN @ \cup {message.title} |->
                        IF k = message.title THEN answered.now ELSE @[k]]]
        ELSE stamped

\* slack_client.send(...) and what follows it, lines 81-112
Dispatch(s, message, alert_type, severity, a) ==
    LET called == Observe(s, message, alert_type, severity,
                          IF a.raises THEN "raised"
                          ELSE IF a.status_code = 200 THEN "sent" ELSE "failed")
        answered == [called EXCEPT !.now = @ + a.took]
    IN  IF a.raises
        THEN answered
        ELSE IF a.status_code = 200
        THEN [answered EXCEPT
                !.last_alert_time =
                    [k \in DOMAIN @ \cup {alert_type} |->
                        IF k = alert_type THEN answered.now ELSE @[k]],
                !.delivered =
                    [k \in DOMAIN @ \cup {alert_type} |->
                        IF k = alert_type THEN answered.now ELSE @[k]],
                !.delivered_title =
                    [k \in DOMAIN @ \cup {message.title} |->
                        IF k = message.title THEN answered.now ELSE @[k]]]
        ELSE answered

\* (variant: maintenance mode is not consulted)
send_slack_alert_ignoring_maintenance(s, message, alert_type, severity) ==
    IF ~s.slack_client
    THEN {Observe(s, message, alert_type, severity, "no_webhook")}
    ELSE IF ~should_alert(s, alert_type)
    THEN {Observe(s, message, alert_type, severity, "cooldown")}
    ELSE {Dispatch(s, message, alert_type, severity, a) : a \in AnswersOf(s)}

send_slack_alert(s, message, alert_type, severity) ==
    IF s.maintenance_mode
    THEN {Observe(s, message, alert_type, severity, "maintenance")}
    ELSE IF ~s.slack_client
    THEN {Observe(s, message, alert_type, severity, "no_webhook")}
    ELSE IF ~should_alert(s, alert_type)
    THEN {Observe(s, message, alert_type, severity, "cooldown")}
    ELSE {Dispatch(s, message, alert_type, severity, a) : a \in AnswersOf(s)}

\* (variant: the test of line 120 is inverted)
IsPrimaryPool_inverted(pool) == pool /= INITIAL_ACTIVE_POOL

\* pool == os.getenv('INITIAL_ACTIVE_POOL', 'blue')
IsPrimaryPool(pool) == pool = INITIAL_ACTIVE_POOL

\* (variant: the emptiness of the pool is not tested)
PoolChanged_counting_empty(s, pool) == pool /= s.last_seen_pool

\* pool and pool != self.last_seen_pool
PoolChanged(s, pool) == pool /= <<>> /\ pool /= s.last_seen_pool

\* (variant: = 1 for += 1)
CountFailover_assigning(s) == [s EXCEPT !.failover_count = 1]

\* self.failover_count += 1
CountFailover(s) == [s EXCEPT !.failover_count = @ + 1]

detect_failover(s, pool) ==
    IF PoolChanged(s, pool)
    THEN LET counted == CountFailover(s)
         IN  IF IsPrimaryPool(pool)
             THEN LET message ==
                        [title |-> "Service Recovery",
                         previous_pool |-> upper(counted.last_seen_pool),
                         current_pool |-> upper(pool),
                         count |-> counted.failover_count]
                  IN  { [t EXCEPT !.primary_recovered = TRUE,
                                  !.last_seen_pool = pool] :
                        t \in send_slack_alert(counted, message, "recovery", "recovery") }
             ELSE LET message ==
                        [title |-> "Failover Detected",
                         previous_pool |-> upper(counted.last_seen_pool),
                         current_pool |-> upper(pool),
                         count |-> counted.failover_count]
                  IN  { [t EXCEPT !.primary_recovered = FALSE,
                                  !.last_seen_pool = pool] :
                        t \in send_slack_alert(counted, message, "failover", "error") }
    ELSE {s}

monitor_error_rate(s, log_data) ==
    IF log_data.upstream_status /= <<>>
    THEN LET pushed ==
                [s EXCEPT !.request_window =
                    deque_append(@, s.window_size,
                                 [upstream_status |-> log_data.upstream_status])]
             error_rate == calculate_error_rate(pushed)
         IN  IF RateGreater(error_rate, pushed.error_threshold)
             THEN LET message ==
                        [title |-> "High Error Rate Alert",
                         previous_pool |-> <<>>,
                         current_pool |-> upper(pushed.current_pool),
                         count |-> error_count(pushed.request_window)]
                  IN  send_slack_alert(pushed, message, "error_rate", "error")
             ELSE {pushed}
    ELSE {s}

\* list(window)[-n:]
LastN(window, n) ==
    IF Len(window) <= n THEN window
    ELSE SubSeq(window, Len(window) - n + 1, Len(window))

\* (variant: the error-rate recovery alert has a category of its own)
monitor_service_health_own_category(s, log_data) ==
    IF /\ log_data.upstream_status /= <<>>
       /\ ~startswith(log_data.upstream_status, "5")
       /\ Len(s.request_window) >= RecentCount
    THEN LET recent_errors == error_count(LastN(s.request_window, RecentCount))
         IN  IF /\ recent_errors = 0
                /\ Get(s.last_alert_time, "error_rate", 0) > 0
                /\ s.now - Get(s.last_alert_time, "error_rate", 0) < RecoveryHorizon
             THEN LET message ==
                        [title |-> "Error Rate Recovery",
                         previous_pool |-> <<>>,
                         current_pool |-> upper(s.current_pool),
                         count |-> 0]
                  IN  send_slack_alert(s, message, "error_recovery", "info")
             ELSE {s}
    ELSE {s}

\* (variant: the age of the error_rate alert is not tested)
monitor_service_health_any_age(s, log_data) ==
    IF /\ log_data.upstream_status /= <<>>
       /\ ~startswith(log_data.upstream_status, "5")
       /\ Len(s.request_window) >= RecentCount
    THEN LET recent_errors == error_count(LastN(s.request_window, RecentCount))
         IN  IF /\ recent_errors = 0
                /\ Get(s.last_alert_time, "error_rate", 0) > 0
             THEN LET message ==
                        [title |-> "Error Rate Recovery",
                         previous_pool |-> <<>>,
                         current_pool |-> upper(s.current_pool),
                         count |-> 0]
                  IN  send_slack_alert(s, message, "recovery", "info")
             ELSE {s}
    ELSE {s}

monitor_service_health(s, log_data) ==
    IF /\ log_data.upstream_status /= <<>>
       /\ ~startswith(log_data.upstream_status, "5")
       /\ Len(s.request_window) >= RecentCount
    THEN LET recent_errors == error_count(LastN(s.request_window, RecentCount))
         IN  IF /\ recent_errors = 0
                /\ Get(s.last_alert_time, "error_rate", 0) > 0
                /\ s.now - Get(s.last_alert_time, "error_rate", 0) < RecoveryHorizon
             THEN LET message ==
                        [title |-> "Error Rate Recovery",
                         previous_pool |-> <<>>,
                         current_pool |-> upper(s.current_pool),
                         count |-> 0]
                  IN  send_slack_alert(s, message, "recovery", "info")
             ELSE {s}
    ELSE {s}

\* (variant: current_pool is assigned before the monitors run)
process_log_line_pool_first(s, line) ==
    LET log_data == parse_log_line(line)
        entered == [s EXCEPT !.last_line = line, !.attempts = <<>>]
    IN  IF log_data = None
        THEN {entered}
        ELSE LET pool == log_data.pool
                 assigned ==
                    IF pool /= <<>>
                    THEN [entered EXCEPT !.current_pool = pool, !.observed_pool = pool]
                    ELSE entered
                 after_failover == detect_failover(assigned, pool)
                 after_rate ==
                    UNION { monitor_error_rate(t, log_data) : t \in after_failover }
             IN  UNION { monitor_service_health(t, log_data) : t \in after_rate }

\* (variant: an exception of the notifier is not caught and ends the call)
process_log_line_propagating(s, line) ==
    LET log_data == parse_log_line(line)
        entered == [s EXCEPT !.last_line = line, !.attempts = <<>>]
        Raised(t) ==
            Len(t.attempts) > 0 /\ t.attempts[Len(t.attempts)].outcome = "raised"
    IN  IF log_data = None
        THEN {entered}
        ELSE LET pool == log_data.pool
                 after_failover == detect_failover(entered, pool)
                 after_rate ==
                    UNION { IF Raised(t) THEN {t} ELSE monitor_error_rate(t, log_data) :
                            t \in after_failover }
                 after_health ==
                    UNION { IF Raised(t) THEN {t} ELSE monitor_service_health(t, log_data) :
                            t \in after_rate }
             IN  { IF pool = <<>> THEN t
                   ELSE IF Raised(t) THEN [t EXCEPT !.observed_pool = pool]
                   ELSE [t EXCEPT !.current_pool = pool, !.observed_pool = pool] :
                   t \in after_health }

process_log_line(s, line) ==
    LET log_data == parse_log_line(line)
        entered == [s EXCEPT !.last_line = line, !.attempts = <<>>]
    IN  IF log_data = None
        THEN {entered}
        ELSE LET pool == log_data.pool
                 after_failover == detect_failover(entered, pool)
                 after_rate ==
                    UNION { monitor_error_rate(t, log_data) : t \in after_failover }
                 after_health ==
                    UNION { monitor_service_health(t, log_data) : t \in after_rate }
             IN  { IF pool /= <<>>
                   THEN [t EXCEPT !.current_pool = pool, !.observed_pool = pool]
                   ELSE t : t \in after_health }

----------------------------------------------------------------------------
\* The state machine.

self ==
    [error_threshold |-> error_threshold, window_size |-> window_size,
     cooldown_sec |-> cooldown_sec, maintenance_mode |-> maintenance_mode,
     slack_client |-> slack_client,
     request_window |-> request_window, last_alert_time |-> last_alert_time,
     current_pool |-> current_pool, last_seen_pool |-> last_seen_pool,
     failover_count |-> failover_count, primary_recovered |-> primary_recovered,
     now |-> now, clock_end |-> clock_end,
     last_line |-> last_line, attempts |-> attempts, delivered |-> delivered,
     observed_pool |-> observed_pool, delivered_title |-> delivered_title]

Becomes(t) ==
    /\ error_threshold' = t.error_threshold
    /\ window_size' = t.window_size
    /\ cooldown_sec' = t.cooldown_sec
    /\ maintenance_mode' = t.maintenance_mode
    /\ slack_client' = t.slack_client
    /\ request_window' = t.request_window
    /\ last_alert_time' = t.last_alert_time
    /\ current_pool' = t.current_pool
    /\ last_seen_pool' = t.last_seen_pool
    /\ failover_count' = t.failover_count
    /\ primary_recovered' = t.primary_recovered
    /\ now' = t.now
    /\ clock_end' = t.clock_end
    /\ delivered_title' = t.delivered_title
    /\ last_line' = t.last_line
    /\ attempts' = t.attempts
    /\ delivered' = t.delivered
    /\ observed_pool' = t.observed_pool

\* LogWatcher.__init__, in an environment the model chooses
Init ==
    /\ error_threshold = DefaultErrorThreshold
    /\ window_size = EnvWindowSize
    /\ cooldown_sec = DefaultCooldownSec
    /\ maintenance_mode \in BOOLEAN
    /\ slack_client \in BOOLEAN
    /\ request_window = <<>>
    /\ last_alert_time = EmptyDict
    /\ current_pool = INITIAL_ACTIVE_POOL
    /\ last_seen_pool = current_pool
    /\ failover_count = 0
    /\ primary_recovered = FALSE
    /\ now = EpochStart
    /\ clock_end = MaxTime
    /\ delivered_title = EmptyDict
    /\ last_line = <<>>
    /\ attempts = <<>>
    /\ delivered = EmptyDict
    /\ observed_pool = INITIAL_ACTIVE_POOL
    /\ error_rate_active = FALSE

\* What an observer of the window and of the notifier can say.
StatusOfLine(line) == line[7].value
FiveXX(window) ==
    Cardinality({ i \in 1..Len(window) : window[i].upstream_status[1] = "5" })
AboveThreshold(window, threshold) == 100 * FiveXX(window) > threshold * Len(window)
NotifierCalled(a) == a.outcome \in {"sent", "failed", "raised"}
Delivered(t, alert_type) ==
    \E i \in 1..Len(t.attempts) :
        t.attempts[i].alert_type = alert_type /\ t.attempts[i].outcome = "sent"

\* process_log_line(line), for the pool changes the model follows
Handle(line) ==
    \E t \in process_log_line(self, line) :
        /\ t.failover_count <= MaxFailovers
        /\ Becomes(t)
        /\ error_rate_active' =
                IF line \notin WellFormedLines THEN error_rate_active
                ELSE IF ~AboveThreshold(t.request_window, t.error_threshold)
                THEN FALSE
                ELSE error_rate_active \/ Delivered(t, "error_rate")

\* watch_logs hands the next line of the file to process_log_line
ProcessLine == \E line \in Lines : Handle(line)

\* time passes between two lines (readline found nothing, sleep)
Tick ==
    /\ now + ClockStep <= clock_end
    /\ now' = now + ClockStep
    /\ last_line' = <<>>
    /\ attempts' = <<>>
    /\ UNCHANGED <<config, engine, clock_end, delivered, observed_pool,
                   delivered_title, error_rate_active>>

Next == ProcessLine \/ Tick

Spec == Init /\ [][Next]_vars

\* One incident on a watcher whose window holds more than the ten records
\* monitor_service_health looks back on: 5xx lines, then lines without a
\* 5xx status, from either pool, with maintenance mode off and a webhook.
HealthWindowSize == 11
HealthClockSteps == 2

IncidentLines ==
    { WellFormedLine(p, u) : p \in Pools, u \in {<<"5", "0", "2">>, <<"2", "0", "0">>} }

InitHealth ==
    /\ error_threshold = DefaultErrorThreshold
    /\ window_size = HealthWindowSize
    /\ cooldown_sec = DefaultCooldownSec
    /\ maintenance_mode = FALSE
    /\ slack_client = TRUE
    /\ request_window = <<>>
    /\ last_alert_time = EmptyDict
    /\ current_pool = INITIAL_ACTIVE_POOL
    /\ last_seen_pool = current_pool
    /\ failover_count = 0
    /\ primary_recovered = FALSE
    /\ now = EpochStart
    /\ clock_end = EpochStart + HealthClockSteps * ClockStep
    /\ delivered_title = EmptyDict
    /\ last_line = <<>>
    /\ attempts = <<>>
    /\ delivered = EmptyDict
    /\ observed_pool = INITIAL_ACTIVE_POOL
    /\ error_rate_active = FALSE

ProcessIncidentLine ==
    \E line \in IncidentLines :
        /\ startswith(StatusOfLine(line), "5") =>
                FiveXX(request_window) = Len(request_window)
        /\ Handle(line)

NextHealth == ProcessIncidentLine \/ Tick

SpecHealth == InitHealth /\ [][NextHealth]_vars

----------------------------------------------------------------------------
\* Properties.

Accepted == last_line \in WellFormedLines
AttemptsOf(alert_type) ==
    { i \in 1..Len(attempts) : attempts[i].alert_type = alert_type }
PoolOf(line) == line[5].value
StatusOf(line) == line[7].value

\* C1: an error_rate alert never reaches the notifier while the window
\* holds fewer than 50 records (the minimum-sample gate of the design).
C1_MinimumSampleGate ==
    \A i \in AttemptsOf("error_rate") :
        NotifierCalled(attempts[i]) => Len(request_window) >= 50

\* C2: per category, an attempt made less than cooldown_sec after the last
\* successful dispatch of that category does not reach the notifier, and
\* an attempt made cooldown_sec or more after it does; so two successful
\* dispatches of a category are at least cooldown_sec apart.
C2_CooldownPerCategory ==
    \A i \in 1..Len(attempts) :
        LET a == attempts[i]
        IN  a.previous > 0 =>
              /\ a.at - a.previous < cooldown_sec => ~NotifierCalled(a)
              /\ a.at - a.previous >= cooldown_sec => NotifierCalled(a)
              /\ a.outcome = "sent" => a.at - a.previous >= cooldown_sec

\* a dispatch that succeeds exactly cooldown_sec after the previous one
C2_Witness ==
    \E i \in 1..Len(attempts) :
        /\ attempts[i].outcome = "sent"
        /\ attempts[i].previous > 0
        /\ attempts[i].at - attempts[i].previous = cooldown_sec

\* C3: in maintenance mode the notifier is never called, whatever the
\* lines, and last_alert_time stays empty.
C3_MaintenanceSilences ==
    maintenance_mode =>
        /\ \A i \in 1..Len(attempts) : attempts[i].outcome = "maintenance"
        /\ last_alert_time = EmptyDict
        /\ delivered = EmptyDict

\* a line that changed the pool and raised the error rate, in maintenance mode
C3_Witness ==
    /\ maintenance_mode
    /\ AttemptsOf("error_rate") /= {}
    /\ AttemptsOf("failover") /= {}
    /\ now > EpochStart

\* C4: while the notifier has never reported success, last_alert_time has
\* no entry, and every accepted line that leaves the error rate above the
\* threshold calls the notifier again (maintenance mode off, a webhook
\* configured: the gate would otherwise allow it).
C4_FailureKeepsCooldown ==
    delivered = EmptyDict =>
        /\ last_alert_time = EmptyDict
        /\ ( /\ Accepted
             /\ ~maintenance_mode
             /\ slack_client
             /\ AboveThreshold(request_window, error_threshold) )
           => \E i \in AttemptsOf("error_rate") : NotifierCalled(attempts[i])

\* the notifier has failed on an earlier line and fails again on this one
C4_Witness ==
    /\ delivered = EmptyDict
    /\ Accepted
    /\ Len(request_window) = window_size
    /\ FiveXX(request_window) = window_size
    /\ \E i \in AttemptsOf("error_rate") : attempts[i].outcome \in {"failed", "raised"}

\* C5: the window never holds more than window_size records; an accepted
\* record is appended last, and when the window was full exactly its
\* oldest record is dropped.
C5_WindowFifo ==
    [][ /\ Len(request_window') <= window_size
        /\ last_line' \in WellFormedLines =>
             LET record == [upstream_status |-> StatusOf(last_line')]
             IN  request_window' =
                    IF Len(request_window) = window_size
                    THEN Append(Tail(request_window), record)
                    ELSE Append(request_window, record) ]_vars

\* a full window with no 5xx record, after an error_rate alert was
\* delivered: the 5xx records that caused it have been evicted
C5_Witness ==
    /\ Accepted
    /\ Len(request_window) = window_size
    /\ FiveXX(request_window) = 0
    /\ request_window[1] /= request_window[window_size]
    /\ "error_rate" \in DOMAIN delivered

TransitionAttempts(as) ==
    { i \in 1..Len(as) :
        as[i].message.title \in {"Service Recovery", "Failover Detected"} }

\* C6: a line with a non-empty pool is classified against the pool of the
\* previous such line (the initial pool at first): no transition alert
\* attempt if equal, one 'recovery' attempt if it differs and is the
\* primary pool, one 'failover' attempt if it differs and is not.
C6_TransitionClassified ==
    [][ (last_line' \in WellFormedLines /\ PoolOf(last_line') /= <<>>) =>
          LET pool == PoolOf(last_line')
              T == TransitionAttempts(attempts')
          IN  /\ last_seen_pool = observed_pool
              /\ pool = observed_pool => T = {}
              /\ (pool /= observed_pool /\ pool = INITIAL_ACTIVE_POOL) =>
                    /\ Cardinality(T) = 1
                    /\ \A i \in T : /\ attempts'[i].alert_type = "recovery"
                                    /\ attempts'[i].message.title = "Service Recovery"
              /\ (pool /= observed_pool /\ pool /= INITIAL_ACTIVE_POOL) =>
                    /\ Cardinality(T) = 1
                    /\ \A i \in T : /\ attempts'[i].alert_type = "failover"
                                    /\ attempts'[i].message.title = "Failover Detected" ]_vars

\* blue, green, blue: the second pool change is the return to blue
C6_Witness ==
    /\ Accepted
    /\ failover_count = 2
    /\ PoolOf(last_line) = Blue
    /\ \E i \in 1..Len(attempts) : attempts[i].message.title = "Service Recovery"

\* C7: a line that does not match the pattern changes nothing of the
\* engine and calls neither send_slack_alert nor the notifier.
C7_RejectedLineNoEffect ==
    [][ last_line' \notin WellFormedLines =>
          /\ UNCHANGED engine
          /\ UNCHANGED <<delivered, observed_pool>>
          /\ attempts' = <<>> ]_vars

\* a line with a malformed upstream_status, after lines that filled the
\* window, changed the pool and delivered an alert
C7_Witness ==
    /\ last_line = WellFormedLine(Green, <<"5", "x">>)
    /\ Len(request_window) = window_size
    /\ failover_count > 0
    /\ last_seen_pool = Blue
    /\ last_alert_time /= EmptyDict

\* C8: the error rate is 0 on an empty window and otherwise
\* 100 * (records whose upstream_status starts with 5) / len(window); a
\* record with the '-' upstream_status is pushed and counts in the
\* denominator only.
C8_ErrorRate ==
    LET rate == calculate_error_rate(self)
    IN  /\ request_window = <<>> => rate.num = 0 /\ rate.den = 1
        /\ request_window /= <<>> =>
              rate.num * Len(request_window) = 100 * FiveXX(request_window) * rate.den
        /\ (Accepted /\ StatusOf(last_line) = Dash) =>
              /\ request_window /= <<>>
              /\ request_window[Len(request_window)].upstream_status = Dash

\* a window of one 5xx record and one '-' record: 50 percent
C8_Witness ==
    /\ Accepted
    /\ StatusOf(last_line) = Dash
    /\ Len(request_window) = 2
    /\ FiveXX(request_window) = 1
    /\ calculate_error_rate(self) = Rate(100, 2)

\* C9: last_alert_time of a category changes only by a successful dispatch
\* of that category, and an attempt is suppressed by the cooldown only when
\* a dispatch of its own category succeeded less than cooldown_sec before.
C9_CooldownIsPerCategory ==
    [][ /\ \A c \in AlertTypes :
             Get(last_alert_time', c, 0) /= Get(last_alert_time, c, 0) =>
                \E i \in 1..Len(attempts') :
                    attempts'[i].alert_type = c /\ attempts'[i].outcome = "sent"
        /\ \A i \in 1..Len(attempts') :
             attempts'[i].outcome = "cooldown" =>
                /\ attempts'[i].previous > 0
                /\ attempts'[i].at - attempts'[i].previous < cooldown_sec ]_vars

\* an error_rate alert delivered on the line whose failover alert was
\* delivered just before it
C9_Witness ==
    /\ \E i \in AttemptsOf("failover") : attempts[i].outcome = "sent"
    /\ \E i \in AttemptsOf("error_rate") :
          /\ attempts[i].outcome = "sent"
          /\ "failover" \in DOMAIN delivered
          /\ attempts[i].at - delivered["failover"] < cooldown_sec

\* C10: once an error_rate alert has been delivered and the error rate has
\* stayed above the threshold on every line since, no line delivers a
\* second error_rate alert.
C10_NoRefireWhileElevated ==
    [][ ( /\ error_rate_active
          /\ last_line' \in WellFormedLines
          /\ AboveThreshold(request_window', error_threshold) )
        => \A i \in 1..Len(attempts') :
              attempts'[i].alert_type = "error_rate" => ~NotifierCalled(attempts'[i]) ]_vars

HealthAttempts(as) ==
    { i \in 1..Len(as) : as[i].message.title = "Error Rate Recovery" }
ErrorRateAttempts(as) ==
    { i \in 1..Len(as) : as[i].message.title = "High Error Rate Alert" }
SentAny(as, I) == \E i \in I : as[i].outcome = "sent"

\* C11: on a pool transition the recorded previous pool becomes the new
\* pool only if the transition's alert was delivered; otherwise it is
\* unchanged (so that the next line with that pool is a transition again).
C11_PoolRecordedOnDeliveryOnly ==
    [][ ( /\ last_line' \in WellFormedLines
          /\ PoolOf(last_line') /= <<>>
          /\ PoolOf(last_line') /= last_seen_pool )
        => last_seen_pool' =
              IF SentAny(attempts', TransitionAttempts(attempts'))
              THEN PoolOf(last_line')
              ELSE last_seen_pool ]_vars

\* C12: within one line the error-rate alert attempt comes before the
\* pool-transition alert attempt.
C12_ErrorRateCheckedFirst ==
    \A i \in ErrorRateAttempts(attempts) :
        \A j \in TransitionAttempts(attempts) : i < j

\* C13: the error-rate recovery alert is attempted on a line exactly when
\* that line brings the window's error rate from above error_threshold to
\* at or below it; never while the rate is still above the threshold.
C13_RecoveryAtThreshold ==
    [][ last_line' \in WellFormedLines =>
          ( HealthAttempts(attempts') /= {}
            <=> ( /\ AboveThreshold(request_window, error_threshold)
                  /\ ~AboveThreshold(request_window', error_threshold) ) ) ]_vars

Pushed(window, size, status) ==
    LET record == [upstream_status |-> status]
    IN  IF Len(window) = size THEN Append(Tail(window), record)
        ELSE Append(window, record)

C15_EmptyPoolIgnored ==
    [][ last_line' \in WellFormedLines =>
          /\ PoolOf(last_line') = <<>> =>
                /\ TransitionAttempts(attempts') = {}
                /\ UNCHANGED <<current_pool, last_seen_pool, failover_count>>
                /\ request_window' =
                      Pushed(request_window, window_size, StatusOf(last_line'))
                /\ AboveThreshold(request_window', error_threshold) =>
                      ErrorRateAttempts(attempts') /= {}
          /\ PoolOf(last_line') /= <<>> => current_pool' = PoolOf(last_line') ]_vars

\* a 5xx line without a pool, after a failover to green
C15_Witness ==
    /\ Accepted
    /\ PoolOf(last_line) = <<>>
    /\ StatusOf(last_line) = <<"5", "0", "2">>
    /\ current_pool = Green
    /\ failover_count = 1
    /\ ErrorRateAttempts(attempts) /= {}

OtherRecovery(title) ==
    IF title = "Service Recovery" THEN "Error Rate Recovery" ELSE "Service Recovery"

\* C16: the two kinds of recovery alert share one cooldown: an attempt of
\* one kind made less than cooldown_sec after the notifier accepted an
\* alert of the other kind does not reach the notifier.
C16_RecoveryKindsShareCooldown ==
    \A i \in 1..Len(attempts) :
        LET a == attempts[i]
            other == OtherRecovery(a.message.title)
        IN  ( /\ a.message.title \in {"Service Recovery", "Error Rate Recovery"}
              /\ other \in DOMAIN delivered_title
              /\ ~\E j \in (i + 1)..Len(attempts) :
                    attempts[j].message.title = other /\ attempts[j].outcome = "sent"
              /\ a.at - delivered_title[other] < cooldown_sec )
            => ~NotifierCalled(a)

\* the return to the primary pool is suppressed although no pool-return
\* alert was ever delivered: an error-rate recovery alert was
C16_Witness ==
    /\ "Service Recovery" \notin DOMAIN delivered_title
    /\ "Error Rate Recovery" \in DOMAIN delivered_title
    /\ \E i \in 1..Len(attempts) :
          /\ attempts[i].message.title = "Service Recovery"
          /\ attempts[i].outcome = "cooldown"

\* C17: an error-rate recovery alert is attempted only on a line whose
\* upstream_status does not start with 5, with at least 10 records in the
\* window, none of the last 10 a 5xx, and an error_rate alert delivered
\* less than 600 seconds before; never without a delivered error_rate alert.
C17_RecoveryPreconditions ==
    \A i \in HealthAttempts(attempts) :
        /\ Accepted
        /\ StatusOf(last_line)[1] /= "5"
        /\ Len(request_window) >= 10
        /\ \A k \in (Len(request_window) - 9)..Len(request_window) :
              request_window[k].upstream_status[1] /= "5"
        /\ "error_rate" \in DOMAIN delivered
        /\ attempts[i].at - delivered["error_rate"] < 600
        /\ attempts[i].at >= delivered["error_rate"]

\* a recovery attempt 300 seconds after the error_rate alert
C17_Witness ==
    \E i \in HealthAttempts(attempts) :
        /\ "error_rate" \in DOMAIN delivered
        /\ attempts[i].at - delivered["error_rate"] = 300
        /\ NotifierCalled(attempts[i])

PoolLabel(pool) ==
    IF pool = Blue THEN <<"B", "L", "U", "E">>
    ELSE IF pool = Green THEN <<"G", "R", "E", "E", "N">>
    ELSE pool

\* C18: the current pool named in an error_rate alert, and in an
\* error-rate recovery alert, is the pool of the most recent earlier line
\* that carried one (the initial pool if none), not the pool of the line
\* being processed.
C18_AlertNamesPreviousPool ==
    [][ \A i \in ErrorRateAttempts(attempts') \cup HealthAttempts(attempts') :
            attempts'[i].message.current_pool = PoolLabel(observed_pool) ]_vars

\* an error_rate alert built on the line that moved from blue to green
\* names BLUE
C18_Witness ==
    /\ Accepted
    /\ PoolOf(last_line) = Green
    /\ TransitionAttempts(attempts) /= {}
    /\ \E i \in ErrorRateAttempts(attempts) :
          attempts[i].message.current_pool = <<"B", "L", "U", "E">>

\* C19: between two process_log_line calls last_seen_pool and current_pool
\* are equal, and equal the pool of the most recent accepted line that
\* carried one (the initial pool if none).
C19_PoolsAgreeBetweenLines ==
    /\ last_seen_pool = current_pool
    /\ current_pool = observed_pool

\* after a failover whose alert the notifier refused, and a later line
C19_Witness ==
    /\ current_pool = Green
    /\ failover_count = 1
    /\ ~maintenance_mode
    /\ slack_client
    /\ delivered = EmptyDict
    /\ Accepted
    /\ TransitionAttempts(attempts) = {}

\* C20: failover_count grows by one on each accepted line whose non-empty
\* pool differs from the pool recorded before the line, whatever became of
\* the alert, and changes on no other step.
C20_FailoverCountCounts ==
    [][ failover_count' =
          failover_count +
            ( IF /\ last_line' \in WellFormedLines
                 /\ PoolOf(last_line') /= <<>>
                 /\ PoolOf(last_line') /= observed_pool
              THEN 1 ELSE 0 ) ]_vars

\* two pool changes counted although no alert was ever delivered
C20_Witness ==
    /\ failover_count = 2
    /\ delivered = EmptyDict
    /\ current_pool = Blue

====
